---- MODULE Spec2Model ----
(***************************************************************************)
(* Failover reverse proxy (main.go): a health checker goroutine probes     *)
(* server A and writes ServerStatus.serverAOnline under an RWMutex; every  *)
(* inbound request reads the flag under the read lock and is served by     *)
(* proxyA or proxyB.                                                       *)
(***************************************************************************)
EXTENDS Integers, Sequences, FiniteSets, TLC

\* ------------------------------------------------------------------ bounds
\* Number of inbound requests handled concurrently in a run.
NumRequests == 2
\* Number of probe cycles the health checker starts in a run.
MaxProbes == 2
\* Probe cycles followed against the clock.
MaxCycles == 5

Requests == 1..NumRequests

\* ------------------------------------------------------------------ inputs
\* SERVER_A_ADDR / SERVER_B_ADDR as url.Parse sees them: a string it accepts
\* and a string it rejects.
UrlKinds == {"wellformed", "malformed"}

\* Status codes a backend may answer with.
StatusCodes == {101, 200, 503}

\* What one probe cycle can end in.
ProbeOutcomes ==
    [kind : {"builderr", "transport", "timeout"}, code : {0}]
        \cup [kind : {"response"}, code : StatusCodes \ {101}]

NoOutcome == [kind |-> "none", code |-> 0]

\* http.Header: a field name maps to the list of its field lines.
UpgradeLines == {<<>>, <<"websocket">>, <<"WebSocket">>, <<"h2c">>, <<"websocket", "h2c">>}
ConnectionLines == {<<>>, <<"Upgrade">>, <<"upgrade">>, <<"keep-alive, Upgrade">>,
                    <<"Upgrade", "keep-alive">>}
Headers == [Upgrade : UpgradeLines, Connection : ConnectionLines]
NoHeaders == [Upgrade |-> <<>>, Connection |-> <<>>]

VARIABLES
    mainPc,         \* position of main(): parseA, parseB, setup, listen, serving, exited
    exitCode,       \* process exit status, -1 while running
    serverA,        \* url.Parse(serverAAddr) has returned a URL
    serverB,        \* url.Parse(serverBAddr) has returned a URL
    listenerBound,  \* ListenAndServe has bound listenAddr
    serverAOnline,  \* ServerStatus.serverAOnline
    mu,             \* ServerStatus.mu: [writer, writerWaiting, readers]
    hcPc,           \* position of healthChecker: off, newreq, do, lock, lockwait,
                    \*   check, write, unlock, sleep
    hcOutcome,      \* outcome of the probe of the current cycle
    hcOnline,       \* argument `online` of the pending setServerAStatus call
    nProbes,        \* probe cycles started
    events,         \* transition log lines written by setServerAStatus, in order
    \* history of the health checker
    nDone,          \* probes whose setServerAStatus call has returned
    lastOutcome,    \* outcome of the last such probe
    prevOnline,     \* serverAOnline when the last setServerAStatus call took the lock
    prevEvents,     \* Len(events) at that moment
    nChanges,       \* number of writes that changed serverAOnline
    everFailed,     \* some processed probe ended without a response
    committed,      \* serverAOnline as left by the last returned setServerAStatus call
    \* per request
    rPc,            \* idle, rlock, read, runlock, route, roundtrip, done
    rLocal,         \* serverAIsOnline
    rSent,          \* backends whose ServeHTTP was invoked for the request, in order
    rResult,        \* what the client got: none, proxied, gateway
    wsLog,          \* number of "WebSocket connection established" lines
    \* one ServeHTTP call of a configured proxy, step by step
    pPc,            \* off, director, roundtrip, modify, error, done
    pIn,            \* Upgrade and Connection headers of the inbound request
    pOut,           \* the same headers of the outgoing request
    pIsWs,          \* isWebSocketRequest's answer
    pCode,          \* status code of the upstream response, 0 when there is none
    pResult,        \* what the client got: none, proxied, gateway
    pLogged,        \* "WebSocket connection established" lines of this call
    \* the health checker's loop against the clock
    tPc,            \* off, newreq, do, sleep
    tNow,           \* the clock, in seconds
    tStart,         \* when the current cycle began
    tPrevStart,     \* when the cycle before it began
    tDur,           \* how long client.Do took in the current cycle
    tPrevDur,       \* how long it took in the cycle before
    tCycles,        \* cycles begun
    tInFlight       \* probes sent and not yet answered or timed out

mainVars == <<mainPc, exitCode, serverA, serverB, listenerBound>>
hcVars == <<hcPc, hcOutcome, hcOnline, nProbes>>
histVars == <<nDone, lastOutcome, prevOnline, prevEvents, nChanges, everFailed, committed>>
reqVars == <<rPc, rLocal, rSent, rResult, wsLog>>
proxyVars == <<pPc, pIn, pOut, pIsWs, pCode, pResult, pLogged>>
timeVars == <<tPc, tNow, tStart, tPrevStart, tDur, tPrevDur, tCycles, tInFlight>>
vars == <<mainVars, serverAOnline, mu, hcVars, events, histVars, reqVars, proxyVars, timeVars>>

\* ------------------------------------------------------------ sync.RWMutex
\* Variant: the flag is read without regard to the writer.
CanRLock_IgnoreWriter(m) == TRUE

\* Variant: a pending Lock call does not hold new readers back.
CanRLock_NoWriterPreference(m) == ~m.writer

\* RLock: granted unless a writer holds the lock or a Lock call is pending.
CanRLock(m) == ~m.writer /\ ~m.writerWaiting

\* Lock: granted once no reader and no writer holds the lock.
CanLock(m) == ~m.writer /\ m.readers = {}

\* ---------------------------------------------------------------- startup
\* Variant: the status object starts offline.
InitOnline_False == FALSE

\* status := &ServerStatus{serverAOnline: true}
InitOnline == TRUE

\* url.Parse returns an error.
ParseFails(u) == u = "malformed"

\* The clock is not followed.
TimeOff ==
    /\ tPc = "off"
    /\ tNow = 0
    /\ tStart = 0
    /\ tPrevStart = 0
    /\ tDur = 0
    /\ tPrevDur = 0
    /\ tCycles = 0
    /\ tInFlight = 0

\* The state main() starts in.
InitMain ==
    /\ mainPc = "parseA"
    /\ exitCode = -1
    /\ serverA = FALSE
    /\ serverB = FALSE
    /\ listenerBound = FALSE
    /\ serverAOnline = InitOnline
    /\ mu = [writer |-> FALSE, writerWaiting |-> FALSE, readers |-> {}]
    /\ hcPc = "off"
    /\ hcOutcome = NoOutcome
    /\ hcOnline = FALSE
    /\ nProbes = 0
    /\ events = <<>>
    /\ nDone = 0
    /\ lastOutcome = NoOutcome
    /\ prevOnline = InitOnline
    /\ prevEvents = 0
    /\ nChanges = 0
    /\ everFailed = FALSE
    /\ committed = InitOnline
    /\ rPc = [r \in Requests |-> "idle"]
    /\ rLocal = [r \in Requests |-> FALSE]
    /\ rSent = [r \in Requests |-> <<>>]
    /\ rResult = [r \in Requests |-> "none"]
    /\ wsLog = 0

Init ==
    /\ InitMain
    /\ TimeOff
    /\ pPc = "off"
    /\ pIn = NoHeaders
    /\ pOut = NoHeaders
    /\ pIsWs = FALSE
    /\ pCode = 0
    /\ pResult = "none"
    /\ pLogged = 0

Running == mainPc # "exited"

\* log.Fatalf: the line is logged and the process exits with status 1.
Fatal ==
    /\ mainPc' = "exited"
    /\ exitCode' = 1

\* Variant: the error of url.Parse(serverAAddr) is dropped.
MainParseA_Unchecked ==
    /\ mainPc = "parseA"
    /\ \E u \in UrlKinds : serverA' = ~ParseFails(u)
    /\ mainPc' = "parseB"
    /\ UNCHANGED <<exitCode, serverB, listenerBound, serverAOnline, mu, hcVars, events,
                   histVars, reqVars, proxyVars, timeVars>>

\* serverA, err := url.Parse(serverAAddr); if err != nil { log.Fatalf }
MainParseA ==
    /\ mainPc = "parseA"
    /\ \E u \in UrlKinds :
        IF ParseFails(u)
        THEN Fatal /\ UNCHANGED serverA
        ELSE mainPc' = "parseB" /\ serverA' = TRUE /\ UNCHANGED exitCode
    /\ UNCHANGED <<serverB, listenerBound, serverAOnline, mu, hcVars, events,
                   histVars, reqVars, proxyVars, timeVars>>

\* serverB, err := url.Parse(serverBAddr); if err != nil { log.Fatalf }
MainParseB ==
    /\ mainPc = "parseB"
    /\ \E u \in UrlKinds :
        IF ParseFails(u)
        THEN Fatal /\ UNCHANGED serverB
        ELSE mainPc' = "setup" /\ serverB' = TRUE /\ UNCHANGED exitCode
    /\ UNCHANGED <<serverA, listenerBound, serverAOnline, mu, hcVars, events,
                   histVars, reqVars, proxyVars, timeVars>>

\* The two proxies are built and configured, the status object is created
\* and the health checker goroutine is started.
MainSetup ==
    /\ mainPc = "setup"
    /\ mainPc' = "listen"
    /\ serverAOnline' = InitOnline
    /\ hcPc' = "newreq"
    /\ UNCHANGED <<exitCode, serverA, serverB, listenerBound, mu, hcOutcome, hcOnline,
                   nProbes, events, histVars, reqVars, proxyVars, timeVars>>

\* http.HandleFunc registers the handler; http.ListenAndServe binds
\* listenAddr, or returns an error and main calls log.Fatalf.
MainListen ==
    /\ mainPc = "listen"
    /\ \E bound \in BOOLEAN :
        IF bound
        THEN mainPc' = "serving" /\ listenerBound' = TRUE /\ UNCHANGED exitCode
        ELSE Fatal /\ UNCHANGED listenerBound
    /\ UNCHANGED <<serverA, serverB, serverAOnline, mu, hcVars, events,
                   histVars, reqVars, proxyVars, timeVars>>

\* ----------------------------------------------------------- healthChecker
\* What client.Do can end in: a response, a transport error, or the client's
\* 2 s timeout.
DoOutcomes == {o \in ProbeOutcomes : o.kind # "builderr"}

\* Variant: only a response below 500 counts as online.
ProbeOnline_Healthy(o) == o.kind = "response" /\ o.code < 500

\* Variant: a timed-out probe counts as online.
ProbeOnline_TimeoutAlive(o) == o.kind \in {"response", "timeout"}

\* The branch of healthChecker that a probe outcome takes: err != nil calls
\* setServerAStatus(status, false), a response of any status calls
\* setServerAStatus(status, true).
ProbeOnline(o) == o.kind = "response"

\* req, err := http.NewRequest("HEAD", serverA.String(), nil); on error the
\* cycle goes straight to setServerAStatus(status, false).
HcNewRequest ==
    /\ Running
    /\ hcPc = "newreq"
    /\ nProbes < MaxProbes
    /\ nProbes' = nProbes + 1
    /\ \E built \in BOOLEAN :
        IF built
        THEN hcPc' = "do" /\ UNCHANGED <<hcOutcome, hcOnline>>
        ELSE /\ hcOutcome' = [kind |-> "builderr", code |-> 0]
             /\ hcOnline' = FALSE
             /\ hcPc' = "lock"
    /\ UNCHANGED <<mainVars, serverAOnline, mu, events, histVars, reqVars, proxyVars, timeVars>>

\* resp, err := client.Do(req)
HcDo ==
    /\ Running
    /\ hcPc = "do"
    /\ \E o \in DoOutcomes :
        /\ hcOutcome' = o
        /\ hcOnline' = ProbeOnline(o)
    /\ hcPc' = "lock"
    /\ UNCHANGED <<mainVars, serverAOnline, mu, nProbes, events, histVars, reqVars, proxyVars, timeVars>>

\* setServerAStatus: status.mu.Lock() is called and is pending.
HcLock ==
    /\ Running
    /\ hcPc = "lock"
    /\ mu' = [mu EXCEPT !.writerWaiting = TRUE]
    /\ hcPc' = "lockwait"
    /\ UNCHANGED <<mainVars, serverAOnline, hcOutcome, hcOnline, nProbes, events,
                   histVars, reqVars, proxyVars, timeVars>>

\* status.mu.Lock() returns.
HcLockAcquire ==
    /\ Running
    /\ hcPc = "lockwait"
    /\ CanLock(mu)
    /\ mu' = [mu EXCEPT !.writer = TRUE, !.writerWaiting = FALSE]
    /\ hcPc' = "check"
    /\ prevOnline' = serverAOnline
    /\ prevEvents' = Len(events)
    /\ UNCHANGED <<mainVars, serverAOnline, hcOutcome, hcOnline, nProbes, events,
                   nDone, lastOutcome, nChanges, everFailed, committed, reqVars, proxyVars, timeVars>>

\* Variant: the transition is logged and written on every call.
StatusChanged_Always(cur, online) == TRUE

\* if status.serverAOnline != online
StatusChanged(cur, online) == cur # online

\* The transition line setServerAStatus logs.
TransitionLine(online) == IF online THEN "now online" ELSE "now offline"

\* The comparison and, when it holds, the log line.
HcCheck ==
    /\ Running
    /\ hcPc = "check"
    /\ IF StatusChanged(serverAOnline, hcOnline)
       THEN /\ events' = Append(events, TransitionLine(hcOnline))
            /\ hcPc' = "write"
       ELSE /\ hcPc' = "unlock"
            /\ UNCHANGED events
    /\ UNCHANGED <<mainVars, serverAOnline, mu, hcOutcome, hcOnline, nProbes,
                   histVars, reqVars, proxyVars, timeVars>>

\* Variant: the assignment is missing.
HcWrite_Skip ==
    /\ Running
    /\ hcPc = "write"
    /\ hcPc' = "unlock"
    /\ UNCHANGED <<mainVars, serverAOnline, mu, hcOutcome, hcOnline, nProbes, events,
                   histVars, reqVars, proxyVars, timeVars>>

\* status.serverAOnline = online
HcWrite ==
    /\ Running
    /\ hcPc = "write"
    /\ serverAOnline' = hcOnline
    /\ nChanges' = IF serverAOnline # hcOnline THEN nChanges + 1 ELSE nChanges
    /\ hcPc' = "unlock"
    /\ UNCHANGED <<mainVars, mu, hcOutcome, hcOnline, nProbes, events,
                   nDone, lastOutcome, prevOnline, prevEvents, everFailed,
                   committed, reqVars, proxyVars, timeVars>>

\* defer status.mu.Unlock(): setServerAStatus returns.
HcUnlock ==
    /\ Running
    /\ hcPc = "unlock"
    /\ mu' = [mu EXCEPT !.writer = FALSE]
    /\ hcPc' = "sleep"
    /\ nDone' = nDone + 1
    /\ lastOutcome' = hcOutcome
    /\ everFailed' = (everFailed \/ hcOutcome.kind # "response")
    /\ committed' = serverAOnline
    /\ UNCHANGED <<mainVars, serverAOnline, hcOutcome, hcOnline, nProbes, events,
                   prevOnline, prevEvents, nChanges, reqVars, proxyVars, timeVars>>

\* Variant: the loop returns after a cycle that marked server A offline.
HcSleep_ReturnOnError ==
    /\ Running
    /\ hcPc = "sleep"
    /\ hcPc' = IF hcOnline THEN "newreq" ELSE "off"
    /\ UNCHANGED <<mainVars, serverAOnline, mu, hcOutcome, hcOnline, nProbes, events,
                   histVars, reqVars, proxyVars, timeVars>>

\* time.Sleep(checkInterval), then the next iteration of the loop.
HcSleep ==
    /\ Running
    /\ hcPc = "sleep"
    /\ hcPc' = "newreq"
    /\ UNCHANGED <<mainVars, serverAOnline, mu, hcOutcome, hcOnline, nProbes, events,
                   histVars, reqVars, proxyVars, timeVars>>

\* ---------------------------------------------------------- request handler
\* A request is accepted by the listener and its handler goroutine starts.
\* Requests are interchangeable, so they are numbered in order of arrival.
Arrive(r) ==
    /\ mainPc = "serving"
    /\ rPc[r] = "idle"
    /\ \A q \in Requests : q < r => rPc[q] # "idle"
    /\ rPc' = [rPc EXCEPT ![r] = "rlock"]
    /\ UNCHANGED <<mainVars, serverAOnline, mu, hcVars, events, histVars,
                   rLocal, rSent, rResult, wsLog, proxyVars, timeVars>>

\* status.mu.RLock()
RLock(r) ==
    /\ rPc[r] = "rlock"
    /\ CanRLock(mu)
    /\ mu' = [mu EXCEPT !.readers = @ \cup {r}]
    /\ rPc' = [rPc EXCEPT ![r] = "read"]
    /\ UNCHANGED <<mainVars, serverAOnline, hcVars, events, histVars,
                   rLocal, rSent, rResult, wsLog, proxyVars, timeVars>>

\* serverAIsOnline := status.serverAOnline
ReadStatus(r) ==
    /\ rPc[r] = "read"
    /\ rLocal' = [rLocal EXCEPT ![r] = serverAOnline]
    /\ rPc' = [rPc EXCEPT ![r] = "runlock"]
    /\ UNCHANGED <<mainVars, serverAOnline, mu, hcVars, events, histVars,
                   rSent, rResult, wsLog, proxyVars, timeVars>>

\* Variant: the read lock is kept while the request is served.
RUnlock_Deferred(r) ==
    /\ rPc[r] = "runlock"
    /\ rPc' = [rPc EXCEPT ![r] = "route"]
    /\ UNCHANGED <<mainVars, serverAOnline, mu, hcVars, events, histVars,
                   rLocal, rSent, rResult, wsLog, proxyVars, timeVars>>

\* status.mu.RUnlock()
RUnlock(r) ==
    /\ rPc[r] = "runlock"
    /\ mu' = [mu EXCEPT !.readers = @ \ {r}]
    /\ rPc' = [rPc EXCEPT ![r] = "route"]
    /\ UNCHANGED <<mainVars, serverAOnline, hcVars, events, histVars,
                   rLocal, rSent, rResult, wsLog, proxyVars, timeVars>>

\* Variant: both branches call proxyA.
ChooseBackend_AlwaysA(online) == "A"

\* if serverAIsOnline { proxyA.ServeHTTP } else { proxyB.ServeHTTP }
ChooseBackend(online) == IF online THEN "A" ELSE "B"

\* The branch on serverAIsOnline is taken: the chosen proxy's ServeHTTP is
\* entered and the request is on its way to that proxy's backend.
Route(r) ==
    /\ rPc[r] = "route"
    /\ rSent' = [rSent EXCEPT ![r] = Append(@, ChooseBackend(rLocal[r]))]
    /\ rPc' = [rPc EXCEPT ![r] = "roundtrip"]
    /\ UNCHANGED <<mainVars, serverAOnline, mu, hcVars, events, histVars,
                   rLocal, rResult, wsLog, proxyVars, timeVars>>

\* Variant: the hook turns a 5xx response into an error.
ModifyResponse_Reject5xx(code) == [err |-> code >= 500, logged |-> code = 101, code |-> code]

\* proxy.ModifyResponse: logs on 101 and returns nil for every response,
\* whose status code it leaves as it is.
ModifyResponse(code) == [err |-> FALSE, logged |-> code = 101, code |-> code]

\* What the client gets from ServeHTTP: the upstream response, or the proxy's
\* 502 when the round trip failed (code 0) or ModifyResponse returned an error.
ClientResult(code) ==
    IF code = 0 \/ ModifyResponse(code).err THEN "gateway" ELSE "proxied"

\* Variant: a failed round trip is retried once on the other backend.
RoundTrip_Retry(r) ==
    /\ rPc[r] = "roundtrip"
    /\ \E code \in {0} \cup StatusCodes :
        IF code = 0 /\ Len(rSent[r]) = 1
        THEN /\ rSent' = [rSent EXCEPT ![r] = Append(@, IF @[1] = "A" THEN "B" ELSE "A")]
             /\ UNCHANGED <<rPc, rResult, wsLog>>
        ELSE /\ rResult' = [rResult EXCEPT ![r] = ClientResult(code)]
             /\ wsLog' = IF code # 0 /\ ModifyResponse(code).logged THEN wsLog + 1 ELSE wsLog
             /\ rPc' = [rPc EXCEPT ![r] = "done"]
             /\ UNCHANGED rSent
    /\ UNCHANGED <<mainVars, serverAOnline, mu, hcVars, events, histVars,
                   rLocal, proxyVars, timeVars>>

\* Variant: a failed round trip to server A marks it offline.
RoundTrip_MarkOffline(r) ==
    /\ rPc[r] = "roundtrip"
    /\ \E code \in {0} \cup StatusCodes :
        /\ rResult' = [rResult EXCEPT ![r] = ClientResult(code)]
        /\ wsLog' = IF code # 0 /\ ModifyResponse(code).logged THEN wsLog + 1 ELSE wsLog
        /\ serverAOnline' = IF code = 0 /\ rSent[r] = <<"A">> THEN FALSE ELSE serverAOnline
    /\ rPc' = [rPc EXCEPT ![r] = "done"]
    /\ UNCHANGED <<mainVars, mu, hcVars, events, histVars, rLocal, rSent, proxyVars, timeVars>>

\* ServeHTTP returns: the round trip to the backend has ended in a response
\* or in an error, and the handler returns.
RoundTrip(r) ==
    /\ rPc[r] = "roundtrip"
    /\ \E code \in {0} \cup StatusCodes :
        /\ rResult' = [rResult EXCEPT ![r] = ClientResult(code)]
        /\ wsLog' = IF code # 0 /\ ModifyResponse(code).logged THEN wsLog + 1 ELSE wsLog
    /\ rPc' = [rPc EXCEPT ![r] = "done"]
    /\ UNCHANGED <<mainVars, serverAOnline, mu, hcVars, events, histVars,
                   rLocal, rSent, proxyVars, timeVars>>

Next ==
    \/ MainParseA
    \/ MainParseB
    \/ MainSetup
    \/ MainListen
    \/ HcNewRequest
    \/ HcDo
    \/ HcLock
    \/ HcLockAcquire
    \/ HcCheck
    \/ HcWrite
    \/ HcUnlock
    \/ HcSleep
    \/ \E r \in Requests : Arrive(r)
    \/ \E r \in Requests : RLock(r)
    \/ \E r \in Requests : ReadStatus(r)
    \/ \E r \in Requests : RUnlock(r)
    \/ \E r \in Requests : Route(r)
    \/ \E r \in Requests : RoundTrip(r)

Spec == Init /\ [][Next]_vars

\* ------------------------------------------------- runs of unbounded length
\* The loop of healthChecker goes on after MaxProbes cycles: the count of
\* cycles, the transition log and the history kept about the cycles so far
\* are dropped, the program's own state is kept.
HcForget ==
    /\ Running
    /\ hcPc = "newreq"
    /\ nProbes = MaxProbes
    /\ nProbes' = 0
    /\ events' = <<>>
    /\ nDone' = 0
    /\ lastOutcome' = NoOutcome
    /\ prevOnline' = serverAOnline
    /\ prevEvents' = 0
    /\ nChanges' = 0
    /\ everFailed' = FALSE
    /\ committed' = serverAOnline
    /\ UNCHANGED <<mainVars, serverAOnline, mu, hcPc, hcOutcome, hcOnline, reqVars, proxyVars, timeVars>>

\* The handler of a finished request has returned; its goroutine slot takes
\* the next inbound request, and the log lines so far are dropped.
Release(r) ==
    /\ rPc[r] = "done"
    /\ rPc' = [rPc EXCEPT ![r] = "rlock"]
    /\ rLocal' = [rLocal EXCEPT ![r] = FALSE]
    /\ rSent' = [rSent EXCEPT ![r] = <<>>]
    /\ rResult' = [rResult EXCEPT ![r] = "none"]
    /\ wsLog' = 0
    /\ UNCHANGED <<mainVars, serverAOnline, mu, hcVars, events, histVars, proxyVars, timeVars>>

NextLive ==
    \/ Next
    \/ HcForget
    \/ \E r \in Requests : Release(r)

\* Scheduling: main and the health checker goroutine keep running (client.Do
\* is bounded by the client's timeout, time.Sleep ends); a handler that is
\* not waiting for its backend keeps running; a reader blocked in RLock is
\* admitted when the writer unlocks, before any later writer.  Nothing is
\* assumed about the arrival of requests or the answers of the backends.
LiveFairness ==
    /\ WF_vars(MainParseA) /\ WF_vars(MainParseB) /\ WF_vars(MainSetup) /\ WF_vars(MainListen)
    /\ WF_vars(HcNewRequest) /\ WF_vars(HcDo) /\ WF_vars(HcLock) /\ WF_vars(HcLockAcquire)
    /\ WF_vars(HcCheck) /\ WF_vars(HcWrite) /\ WF_vars(HcUnlock) /\ WF_vars(HcSleep)
    /\ WF_vars(HcForget)
    /\ \A r \in Requests :
        /\ SF_vars(RLock(r))
        /\ WF_vars(ReadStatus(r))
        /\ WF_vars(RUnlock(r))
        /\ WF_vars(Route(r))

SpecLive == Init /\ [][NextLive]_vars /\ LiveFairness

\* ------------------------------------------- one ServeHTTP call, step by step
\* http.Header.Get: the first field line of the name, "" when there is none.
HeaderGet(lines) == IF lines = <<>> THEN "" ELSE lines[1]

\* http.Header.Set: the name's field lines are replaced by the one value.
HeaderSet(value) == <<value>>

\* Variant: the two values are compared without regard to case.
Lower(v) ==
    CASE v = "WebSocket" -> "websocket"
      [] v = "Upgrade" -> "upgrade"
      [] OTHER -> v

isWebSocketRequest_Fold(h) ==
    Lower(HeaderGet(h.Upgrade)) = "websocket" /\ Lower(HeaderGet(h.Connection)) = "upgrade"

isWebSocketRequest(h) ==
    HeaderGet(h.Upgrade) = "websocket" /\ HeaderGet(h.Connection) = "Upgrade"

\* Variant: the two headers are rewritten whenever they are present.
DirectorHeaders_Unconditional(h) ==
    [Connection |-> IF HeaderGet(h.Connection) # ""
                    THEN HeaderSet("Upgrade") ELSE h.Connection,
     Upgrade |-> IF HeaderGet(h.Upgrade) # ""
                 THEN HeaderSet("websocket") ELSE h.Upgrade]

\* The Director installed by configureWebsocketProxy, on the two headers.
DirectorHeaders(h) ==
    IF isWebSocketRequest(h)
    THEN [Connection |-> IF HeaderGet(h.Connection) # ""
                         THEN HeaderSet("Upgrade") ELSE h.Connection,
          Upgrade |-> IF HeaderGet(h.Upgrade) # ""
                      THEN HeaderSet("websocket") ELSE h.Upgrade]
    ELSE h

\* A request with any of the header combinations enters a proxy's ServeHTTP.
InitProxy ==
    /\ InitMain
    /\ TimeOff
    /\ pPc = "director"
    /\ pIn \in Headers
    /\ pOut = NoHeaders
    /\ pIsWs = FALSE
    /\ pCode = 0
    /\ pResult = "none"
    /\ pLogged = 0

\* proxy.Director runs on the outgoing request.
PDirector ==
    /\ pPc = "director"
    /\ pIsWs' = isWebSocketRequest(pIn)
    /\ pOut' = DirectorHeaders(pIn)
    /\ pPc' = "roundtrip"
    /\ UNCHANGED <<mainVars, serverAOnline, mu, hcVars, events, histVars, reqVars, timeVars,
                   pIn, pCode, pResult, pLogged>>

\* What the upstream round trip can end in: 0 stands for a transport error
\* or timeout; a backend switches protocols only when asked to upgrade.
UpstreamOutcomes(out) ==
    IF HeaderGet(out.Upgrade) = "" THEN {0} \cup (StatusCodes \ {101})
    ELSE {0} \cup StatusCodes

\* The round trip to the backend ends.
PRoundTrip ==
    /\ pPc = "roundtrip"
    /\ \E code \in UpstreamOutcomes(pOut) :
        /\ pCode' = code
        /\ pPc' = IF code = 0 THEN "error" ELSE "modify"
    /\ UNCHANGED <<mainVars, serverAOnline, mu, hcVars, events, histVars, reqVars, timeVars,
                   pIn, pOut, pIsWs, pResult, pLogged>>

\* proxy.ModifyResponse runs on the upstream response; the response goes to
\* the client unless the hook returned an error.
PModifyResponse ==
    /\ pPc = "modify"
    /\ pLogged' = IF ModifyResponse(pCode).logged THEN pLogged + 1 ELSE pLogged
    /\ pResult' = ClientResult(pCode)
    /\ pPc' = "done"
    /\ UNCHANGED <<mainVars, serverAOnline, mu, hcVars, events, histVars, reqVars, timeVars,
                   pIn, pOut, pIsWs, pCode>>

\* The round trip failed: the proxy answers 502 Bad Gateway.
PErrorHandler ==
    /\ pPc = "error"
    /\ pResult' = ClientResult(pCode)
    /\ pPc' = "done"
    /\ UNCHANGED <<mainVars, serverAOnline, mu, hcVars, events, histVars, reqVars, timeVars,
                   pIn, pOut, pIsWs, pCode, pLogged>>

NextProxy ==
    \/ PDirector
    \/ PRoundTrip
    \/ PModifyResponse
    \/ PErrorHandler

SpecProxy == InitProxy /\ [][NextProxy]_vars

\* ------------------------------------------- the health checker's timing

\* checkInterval = 5 * time.Second
checkInterval == 5

\* http.Client{Timeout: 2 * time.Second}
ProbeTimeout == 2

\* How long client.Do can take: it returns, with a response or an error,
\* no later than the client's timeout.
ProbeDurations == 0..ProbeTimeout

InitTime ==
    /\ InitMain
    /\ pPc = "off"
    /\ pIn = NoHeaders
    /\ pOut = NoHeaders
    /\ pIsWs = FALSE
    /\ pCode = 0
    /\ pResult = "none"
    /\ pLogged = 0
    /\ tPc = "newreq"
    /\ tNow = 0
    /\ tStart = 0
    /\ tPrevStart = 0
    /\ tDur = 0
    /\ tPrevDur = 0
    /\ tCycles = 0
    /\ tInFlight = 0

\* Top of the for loop: http.NewRequest. When it fails the cycle goes to
\* setServerAStatus(false) and the sleep without sending anything.
THcNewRequest ==
    /\ tPc = "newreq"
    /\ tCycles < MaxCycles
    /\ tCycles' = tCycles + 1
    /\ tPrevStart' = tStart
    /\ tStart' = tNow
    /\ tPrevDur' = tDur
    /\ tDur' = 0
    /\ \/ tPc' = "do" /\ tInFlight' = tInFlight + 1
       \/ tPc' = "sleep" /\ tInFlight' = tInFlight
    /\ UNCHANGED <<mainVars, serverAOnline, mu, hcVars, events, histVars, reqVars,
                   proxyVars, tNow>>

\* client.Do blocks until the probe is answered, fails or times out; the
\* setServerAStatus call that follows takes no time on the clock.
THcDo ==
    /\ tPc = "do"
    /\ \E d \in ProbeDurations :
        /\ tNow' = tNow + d
        /\ tDur' = d
    /\ tInFlight' = tInFlight - 1
    /\ tPc' = "sleep"
    /\ UNCHANGED <<mainVars, serverAOnline, mu, hcVars, events, histVars, reqVars,
                   proxyVars, tStart, tPrevStart, tPrevDur, tCycles>>

\* time.Sleep(checkInterval), then the next iteration.
THcSleep ==
    /\ tPc = "sleep"
    /\ tNow' = tNow + checkInterval
    /\ tPc' = "newreq"
    /\ UNCHANGED <<mainVars, serverAOnline, mu, hcVars, events, histVars, reqVars,
                   proxyVars, tStart, tPrevStart, tDur, tPrevDur, tCycles, tInFlight>>

NextTime ==
    \/ THcNewRequest
    \/ THcDo
    \/ THcSleep

SpecTime == InitTime /\ [][NextTime]_vars

\* ------------------------------------------------------------------ claims
\* The health checker is inside setServerAStatus's critical section.
InWrite == hcPc \in {"check", "write", "unlock"}

\* The health checker is between two setServerAStatus calls, one having returned.
Settled == nDone >= 1 /\ ~InWrite

\* A request holds the read lock.
Reading(r) == rPc[r] \in {"read", "runlock"}

\* C1: once setServerAStatus has returned for a probe, and until the next
\* call takes the lock, serverAOnline is true iff that probe got a response
\* (of any status code) and false iff it ended in a request-construction
\* error, a transport error or a timeout, whatever the probes before it.
C1_FlagIsLastClassification ==
    Settled =>
        /\ lastOutcome.kind = "response" => serverAOnline = TRUE
        /\ lastOutcome.kind \in {"builderr", "transport", "timeout"} => serverAOnline = FALSE
        /\ lastOutcome.kind # "none"

\* A 503 answer after an earlier failed probe has put the flag back to true.
C1_Witness ==
    /\ Settled
    /\ nDone = 2
    /\ everFailed
    /\ lastOutcome = [kind |-> "response", code |-> 503]
    /\ serverAOnline

\* C2: every ServeHTTP call made for a request is proxyA's when the value
\* the handler read is true and proxyB's when it is false.
C2_RouteByValueRead ==
    \A r \in Requests : \A i \in 1..Len(rSent[r]) :
        /\ rLocal[r] = TRUE => rSent[r][i] = "A"
        /\ rLocal[r] = FALSE => rSent[r][i] = "B"

\* One request went to A and another to B; the flag has since changed back.
C2_Witness ==
    /\ serverAOnline
    /\ \E r1, r2 \in Requests :
        /\ rSent[r1] = <<"A">> /\ rLocal[r1] = TRUE
        /\ rSent[r2] = <<"B">> /\ rLocal[r2] = FALSE

\* C3: the number of transition lines equals the number of times the flag
\* changed value (outside the instant between the log line and the write); a
\* probe classified like the flag it found adds no line, and a first probe
\* that got a response leaves the log empty.
C3_EventsAreChanges ==
    /\ hcPc # "write" => Len(events) = nChanges
    /\ (Settled /\ prevOnline = (lastOutcome.kind = "response")) => Len(events) = prevEvents
    /\ (Settled /\ nDone = 1 /\ lastOutcome.kind = "response") => events = <<>>

\* Two failed probes in a row have logged one line.
C3_Witness ==
    /\ Settled
    /\ nDone = 2
    /\ lastOutcome.kind = "timeout"
    /\ prevOnline = FALSE
    /\ events = <<"now offline">>

\* C4, the flag and the log: a timed-out probe that found the flag true
\* leaves it false with one more line, "now offline"; a probe answered while
\* the flag was false leaves it true with one more line, "now online".
C4_Transitions ==
    /\ (Settled /\ prevOnline /\ lastOutcome.kind = "timeout") =>
            /\ serverAOnline = FALSE
            /\ Len(events) = prevEvents + 1
            /\ events[Len(events)] = "now offline"
    /\ (Settled /\ ~prevOnline /\ lastOutcome.kind = "response") =>
            /\ serverAOnline = TRUE
            /\ Len(events) = prevEvents + 1
            /\ events[Len(events)] = "now online"

\* C4, the requests: a read made after the call for a timed-out probe has
\* returned (and before the next one) yields false and the request goes to
\* B; a read made after the call for an answered probe yields true and the
\* request goes to A.
C4_ReadsFollow ==
    \A r \in Requests :
        /\ (rPc[r] = "read" /\ rPc'[r] = "runlock" /\ lastOutcome.kind = "timeout")
                => rLocal'[r] = FALSE
        /\ (rPc[r] = "read" /\ rPc'[r] = "runlock" /\ lastOutcome.kind = "response")
                => rLocal'[r] = TRUE
        /\ (rPc[r] = "route" /\ rPc'[r] = "roundtrip")
                => rSent'[r] = <<IF rLocal[r] THEN "A" ELSE "B">>

\* C4: failover on a timed-out probe and fail-back on the next answered one,
\* each with exactly one transition line, and requests reading after each
\* write routed accordingly.
C4_FailoverFailback == []C4_Transitions /\ [][C4_ReadsFollow]_vars

\* A timeout then an answer: two lines, a request sent to B in between and a
\* request that has just read true after the recovery.
C4_Witness ==
    /\ Settled
    /\ nDone = 2
    /\ lastOutcome.kind = "response"
    /\ events = <<"now offline", "now online">>
    /\ \E r1, r2 \in Requests :
        /\ rSent[r1] = <<"B">>
        /\ rPc[r2] = "runlock" /\ rLocal[r2] = TRUE

\* C5: the writer excludes every reader: the lock is write-held exactly while
\* the health checker is inside setServerAStatus, no request holds the read
\* lock meanwhile, and the value a request has read is the one the last
\* returned setServerAStatus call left (the initial value when there is none).
C5_WriteExclusion ==
    /\ mu.writer <=> InWrite
    /\ mu.writer => mu.readers = {}
    /\ \A r \in Requests : Reading(r) <=> r \in mu.readers
    /\ \A r \in Requests : ~(Reading(r) /\ InWrite)
    /\ \A r \in Requests : rPc[r] = "runlock" => rLocal[r] = committed

\* Two requests read together while the health checker's Lock call waits.
C5_Witness ==
    /\ Cardinality(mu.readers) = 2
    /\ hcPc = "lockwait"
    /\ hcOnline # serverAOnline

\* C6: the flag is true until a probe that got no response has been
\* processed, and a request that reads it before then reads true and is sent
\* to A.
C6_OnlineUntilFirstFailure ==
    /\ (~everFailed /\ ~InWrite) => serverAOnline = TRUE
    /\ \A r \in Requests : (rPc[r] = "runlock" /\ ~everFailed) => rLocal[r] = TRUE
    /\ \A r \in Requests : (rSent[r] # <<>> /\ rLocal[r] = TRUE) => rSent[r] = <<"A">>

\* A request was served by A before any probe had been processed.
C6_Witness ==
    /\ nDone = 0
    /\ \E r \in Requests : rPc[r] = "done" /\ rSent[r] = <<"A">>

\* C7: a request is handed to one proxy, once: nothing is sent before the
\* branch, exactly one ServeHTTP call is made from then on, whatever the
\* round trip ends in and whatever the flag becomes meanwhile, and a finished
\* request got the upstream response or the proxy's gateway error.
C7_ForwardedOnce ==
    \A r \in Requests :
        /\ rPc[r] \in {"roundtrip", "done"} => Len(rSent[r]) = 1
        /\ rPc[r] \notin {"roundtrip", "done"} => rSent[r] = <<>>
        /\ rPc[r] = "done" => rResult[r] \in {"proxied", "gateway"}
        /\ rPc[r] # "done" => rResult[r] = "none"

\* A request sent to A failed upstream after the flag had gone false; it
\* ended in the gateway error and was not sent to B.
C7_Witness ==
    \E r \in Requests :
        /\ rPc[r] = "done"
        /\ rResult[r] = "gateway"
        /\ rSent[r] = <<"A">>
        /\ serverAOnline = FALSE

C9_ParseFailureIsFatal ==
    /\ (mainPc # "parseA" /\ ~serverA) => (mainPc = "exited" /\ exitCode > 0)
    /\ (mainPc \notin {"parseA", "parseB"} /\ ~serverB) => (mainPc = "exited" /\ exitCode > 0)
    /\ (mainPc = "exited" /\ (~serverA \/ ~serverB)) =>
            /\ ~listenerBound
            /\ hcPc = "off"
            /\ nProbes = 0
            /\ \A r \in Requests : rPc[r] = "idle" /\ rSent[r] = <<>>
    /\ (listenerBound \/ hcPc # "off") => (serverA /\ serverB)
    /\ mainPc # "exited" => exitCode = -1

\* The secondary's URL did not parse: exit status 1, nothing started.
C9_Witness ==
    /\ mainPc = "exited"
    /\ exitCode = 1
    /\ serverA
    /\ ~serverB
    /\ ~listenerBound
    /\ hcPc = "off"

\* The probe whose result the health checker obtained last: the current
\* cycle's once client.Do or a failed NewRequest is behind it, else the last
\* processed one.
LastObtained ==
    IF hcPc \in {"lock", "lockwait", "check", "write", "unlock"} THEN hcOutcome ELSE lastOutcome

\* The step in which request r reads the flag.
ReadStep(r) == rPc[r] = "read" /\ rPc'[r] = "runlock"

\* C11 as stated: every read yields the classification of the probe whose
\* result the health checker obtained last, true when there is none.
C11_ReadsLastObtained ==
    [][\A r \in Requests :
        ReadStep(r) =>
            rLocal'[r] = (LastObtained.kind = "none" \/ LastObtained.kind = "response")]_vars

\* C11, amended: every read yields the classification of the last probe for
\* which setServerAStatus had returned, true when there is none.
C11_ReadsLastWritten ==
    [][\A r \in Requests :
        ReadStep(r) =>
            rLocal'[r] = (IF nDone = 0 THEN TRUE ELSE lastOutcome.kind = "response")]_vars

\* A request has just read true although the current probe has already timed
\* out: the health checker's Lock call is still waiting for this reader.
C11_Witness ==
    /\ hcPc = "lockwait"
    /\ hcOutcome.kind = "timeout"
    /\ nDone = 1
    /\ lastOutcome.kind = "response"
    /\ \E r \in Requests : rPc[r] = "runlock" /\ rLocal[r] = TRUE

\* The order of the positions of healthChecker within one cycle.
HcEdges ==
    {<<"off", "newreq">>, <<"newreq", "do">>, <<"newreq", "lock">>, <<"do", "lock">>,
     <<"lock", "lockwait">>, <<"lockwait", "check">>, <<"check", "write">>,
     <<"check", "unlock">>, <<"write", "unlock">>, <<"unlock", "sleep">>,
     <<"sleep", "newreq">>}

\* C12, the shape of a cycle: the health checker never leaves the loop, and
\* from an outcome of any kind it can only go through setServerAStatus and
\* the sleep before the next NewRequest or Do.
C12_CycleShape == hcPc' # hcPc => <<hcPc, hcPc'>> \in HcEdges

\* C12, the write: when the sleep is reached, setServerAStatus has returned
\* for the outcome of this cycle, of whatever kind, and the flag is its
\* classification.
C12_WrittenBeforeSleep ==
    hcPc = "sleep" =>
        /\ hcOutcome.kind \in {"builderr", "transport", "timeout", "response"}
        /\ lastOutcome = hcOutcome
        /\ serverAOnline = hcOnline

\* C12: while the process serves, the loop has no end: whatever a cycle's
\* outcome, its write is made and the sleep is reached, and after each sleep
\* another cycle obtains its outcome; within a cycle nothing is tried twice.
C12_LoopNeverEnds ==
    /\ [][C12_CycleShape]_vars
    /\ []C12_WrittenBeforeSleep
    /\ (mainPc = "serving") ~> (hcPc = "sleep")
    /\ (mainPc = "serving" /\ hcPc = "sleep") ~> (hcPc = "lock")

\* The health checker sleeps after a cycle whose request could not be built,
\* the cycle before having timed out.
C12_Witness ==
    /\ mainPc = "serving"
    /\ hcPc = "sleep"
    /\ nDone = 2
    /\ lastOutcome.kind = "builderr"
    /\ events = <<"now offline">>

\* No probe result without a response from some point on.
AlwaysAnswered == mainPc = "serving" /\ hcOutcome.kind = "response"

\* No probe result with a response from some point on.
NeverAnswered == mainPc = "serving" /\ hcOutcome.kind \in {"builderr", "transport", "timeout"}

\* C13: if from some point on every probe gets a response, the flag becomes
\* and stays true and every request that has read it since holds true (and so
\* goes to A); if from some point on every probe fails, the flag becomes and
\* stays false and every such request holds false (and so goes to B).
C13_SelfHealing ==
    /\ <>[]AlwaysAnswered =>
            <>[](serverAOnline = TRUE
                 /\ \A r \in Requests : rPc[r] \in {"runlock", "route"} => rLocal[r] = TRUE)
    /\ <>[]NeverAnswered =>
            <>[](serverAOnline = FALSE
                 /\ \A r \in Requests : rPc[r] \in {"runlock", "route"} => rLocal[r] = FALSE)
    /\ [][\A r \in Requests :
            (rPc[r] = "route" /\ rPc'[r] = "roundtrip")
                => rSent'[r] = <<IF rLocal[r] THEN "A" ELSE "B">>]_vars

\* After a failure and a recovery the flag is true again, the last probe was
\* answered, and a request that has read it since is on its way to A.
C13_Witness ==
    /\ mainPc = "serving"
    /\ serverAOnline = TRUE
    /\ events = <<"now offline", "now online">>
    /\ hcPc = "sleep"
    /\ hcOutcome.kind = "response"
    /\ \E r \in Requests : rPc[r] = "route" /\ rLocal[r] = TRUE

\* C14: the flag changes only in the assignment of setServerAStatus, made by
\* the health checker; no step of a request's handling changes it, whatever
\* the round trip ends in, so a request that reads it after a failed round
\* trip to A, with no write of false in between, still reads true.
C14_OnlyMonitorWrites ==
    [][/\ serverAOnline' # serverAOnline =>
              (hcPc = "write" /\ hcPc' = "unlock" /\ serverAOnline' = hcOnline /\ rPc' = rPc)
       /\ (rPc' # rPc \/ rResult' # rResult \/ rSent' # rSent) =>
              (serverAOnline' = serverAOnline /\ committed' = committed)
       /\ \A r \in Requests : ReadStep(r) => rLocal'[r] = serverAOnline]_vars

\* A round trip to A has failed while the flag is still true; another
\* request has read true and is on its way to A too.
C14_Witness ==
    /\ serverAOnline = TRUE
    /\ \E r1, r2 \in Requests :
        /\ rPc[r1] = "done" /\ rSent[r1] = <<"A">> /\ rResult[r1] = "gateway"
        /\ rPc[r2] = "roundtrip" /\ rSent[r2] = <<"A">>

\* C15: the health checker holds no lock and has no Lock call pending while
\* it builds or sends the probe or sleeps, and a request holds no read lock
\* from the branch on; so RLock is granted at once during a probe or a
\* sleep, and served requests keep neither Lock nor RLock from being granted.
C15_NoLockAcrossBlocking ==
    /\ hcPc \in {"off", "newreq", "do", "sleep"} =>
            (~mu.writer /\ ~mu.writerWaiting /\ CanRLock(mu))
    /\ \A r \in Requests : rPc[r] \in {"route", "roundtrip", "done"} => r \notin mu.readers
    /\ (\A r \in Requests : ~Reading(r)) => (mu.readers = {} /\ (~mu.writer => CanLock(mu)))

\* Both requests are being served by a backend while the health checker is
\* inside setServerAStatus, about to change the flag.
C15_Witness ==
    /\ hcPc = "write"
    /\ mu.writer
    /\ \A r \in Requests : rPc[r] = "roundtrip"

\* C16: under fair scheduling every request that has arrived gets its read
\* lock, reads, and is handed to a backend proxy, whatever the health
\* checker and the other requests do; and a pending Lock of the health
\* checker is granted although requests keep arriving.
C16_NoStarvation ==
    /\ \A r \in Requests : (rPc[r] = "rlock") ~> (rPc[r] = "roundtrip")
    /\ (mainPc = "serving" /\ hcPc = "lockwait") ~> (hcPc = "check")

\* The health checker waits for the lock behind a reader while another
\* request waits for its read lock behind the health checker.
C16_Witness ==
    /\ hcPc = "lockwait"
    /\ mu.writerWaiting
    /\ \E r1, r2 \in Requests :
        /\ rPc[r1] = "rlock"
        /\ Reading(r2) /\ r2 \in mu.readers

\* C17 (as stated): every probe cycle begins exactly checkInterval after the
\* one before it began, however long that one's probe took.
C17_FixedPeriod ==
    tCycles >= 2 => tStart - tPrevStart = checkInterval

\* C17 (what the loop does): a cycle begins checkInterval after the probe of the
\* cycle before has ended, and one probe at most is in flight.
C17_SleepAfterProbe ==
    /\ tCycles >= 2 => tStart - tPrevStart = tPrevDur + checkInterval
    /\ tInFlight <= 1
    /\ tInFlight = 1 <=> tPc = "do"

\* The probe of the first cycle ran into the timeout and the second cycle
\* began ProbeTimeout + checkInterval after the first.
C17_Witness ==
    /\ tCycles = 2
    /\ tPrevDur = ProbeTimeout
    /\ tStart = ProbeTimeout + checkInterval
    /\ tPc = "do"

\* C18: once the Director has run, a request classified as an upgrade goes
\* out with exactly Connection: Upgrade and Upgrade: websocket, further
\* field lines of the two headers being dropped, and is sent on rather than
\* refused; a request not classified goes out with both headers as received.
C18_DirectorNormalizes ==
    pPc \notin {"off", "director"} =>
        /\ pIsWs = isWebSocketRequest(pIn)
        /\ pIsWs => pOut = [Connection |-> <<"Upgrade">>, Upgrade |-> <<"websocket">>]
        /\ ~pIsWs => pOut = pIn
        /\ pPc = "done" => pResult \in {"proxied", "gateway"}
        /\ (pPc = "done" /\ pResult = "gateway") => pCode = 0

\* A classified request whose headers carried a second field line each has
\* gone out with the canonical values only and was answered by the backend.
C18_Witness ==
    /\ pPc = "done"
    /\ pIsWs
    /\ pIn.Upgrade = <<"websocket", "h2c">>
    /\ pIn.Connection = <<"Upgrade", "keep-alive">>
    /\ pOut = [Connection |-> <<"Upgrade">>, Upgrade |-> <<"websocket">>]
    /\ pResult = "proxied"

\* C19: ModifyResponse returns nil and leaves the status code alone for
\* every upstream response, so each response the backend gave reaches the
\* client and only a failed round trip is answered with the proxy's own
\* gateway error; a 101 response writes one "connection established" line
\* and is otherwise passed on like any other, and no other response writes one.
C19_HookIsTransparent ==
    /\ \A code \in StatusCodes : ModifyResponse(code).code = code
    /\ pPc = "done" =>
        /\ pCode # 0 => (pResult = "proxied" /\ pLogged = (IF pCode = 101 THEN 1 ELSE 0))
        /\ pCode = 0 => (pResult = "gateway" /\ pLogged = 0)
    /\ pPc # "done" => (pLogged = 0 /\ pResult = "none")

\* The backend switched protocols: one line was logged and the response
\* went to the client.
C19_Witness ==
    /\ pPc = "done"
    /\ pCode = 101
    /\ pLogged = 1
    /\ pResult = "proxied"

====
